---- MODULE Spec2Model ----
(***************************************************************************)
(* A model of follow_to_block.py: the reconciliation of the follows and    *)
(* blocks of two Bluesky accounts, A (primary) and B (secondary).          *)
(*                                                                         *)
(* Account identifiers (DIDs) are modelled as positive integers whose      *)
(* numeric order stands for the lexical order of the identifier strings    *)
(* (the order Python's sorted() iterates them in).  0 stands for None and  *)
(* for the empty string, the two values Python's truth test rejects.       *)
(***************************************************************************)
EXTENDS Integers, Sequences, FiniteSets, TLC

\* ------------------------------------------------------------ bounds
\* Account identifiers are 1..NumDids.
NumDids == 5
\* The most records (follows and blocks of A and B together) initially held.
MaxRecords == 4
\* The most records one account initially holds for one subject and kind.
MaxDup == 2
\* The most records a server returns in one page, whatever limit is asked.
PageCap == 2
\* The most failing remote calls in one behaviour.
MaxFails == 1
\* The paged lists of PageSpec: pages per list and entries per page.
MaxPages == 2
MaxEntries == 2

\* ------------------------------------------------------------ constants
\* The identifiers login returns for the two accounts (profile_a.did, profile_b.did).
ProfileA == 1
ProfileB == 2
\* The page size every list request asks for.
Limit == 100
\* None, the empty string, a missing attribute.
None == 0

FOLLOW == "app.bsky.graph.follow"
BLOCK == "app.bsky.graph.block"
Collections == {FOLLOW, BLOCK}
Accounts == {ProfileA, ProfileB}
DIDs == 1..NumDids

Min(a, b) == IF a < b THEN a ELSE b

\* ------------------------------------------------------------ helpers
\* sorted(S): the elements of a set in ascending order.
RECURSIVE sorted(_)
sorted(S) ==
  IF S = {} THEN <<>>
  ELSE LET m == CHOOSE x \in S : \A y \in S : x <= y
       IN <<m>> \o sorted(S \ {m})

\* ------------------------------------------------------------ the remote repository
\* A record of a repository: its uri at://<repo>/<collection>/<rkey>, kept as
\* the sequence of its three segments, and the subject of its value.
Record(repo, collection, rkey, subject) ==
  [uri |-> <<repo, collection, rkey>>, subject |-> subject]

\* rkey = record.uri.split("/")[-1]
RkeyOf(record) == record.uri[Len(record.uri)]

\* com.atproto.repo.listRecords: one page of a collection, at most
\* min(limit, PageCap) records from the cursor on, and the cursor of the next
\* page (None on the last one).  A cursor is the count of records served.
list_records(records, limit, cursor) ==
  LET n == Min(limit, PageCap)
      last == Min(cursor + n, Len(records))
  IN [records |-> SubSeq(records, cursor + 1, last),
      cursor |-> IF last < Len(records) THEN last ELSE None]

\* com.atproto.repo.deleteRecord: the collection without the record of that key.
delete_record(records, rkey) ==
  SelectSeq(records, LAMBDA r : RkeyOf(r) # rkey)

\* app.bsky.graph.block.create: a new record under a fresh record key.  The
\* key is opaque to the program; the model takes the least key not in use.
NextRkey(records) ==
  LET used == {RkeyOf(records[k]) : k \in 1..Len(records)}
  IN CHOOSE m \in 1..(Len(records) + 1) : m \notin used /\ \A n \in 1..(m - 1) : n \in used

block_create(records, repo, subject) ==
  Append(records, Record(repo, BLOCK, NextRkey(records), subject))

\* app.bsky.graph.getFollows / getBlocks: a page of profiles, one per record
\* of the collection; here a profile is its did.
graph_page(records, limit, cursor) ==
  LET page == list_records(records, limit, cursor)
  IN [items |-> [k \in 1..Len(page.records) |-> page.records[k].subject],
      cursor |-> page.cursor]

\* ------------------------------------------------------------ Graph Fetcher
\* A variant of the loop body that does not test the did of an entry.
AddFollows_KeepNone(acc, items) == acc \cup {items[k] : k \in 1..Len(items)}

\* The body of the for loop of get_follow_dids: dids.add(did) for every entry
\* whose did attribute is present and not empty.
AddFollows(acc, items) == acc \cup {items[k] : k \in {j \in 1..Len(items) : items[j] # None}}

\* The same loop of get_block_dids.
AddBlocks(acc, items) == acc \cup {items[k] : k \in {j \in 1..Len(items) : items[j] # None}}

\* if not cursor: break
LastPage(response) == response.cursor = None

RECURSIVE follow_loop(_, _, _)
follow_loop(records, acc, cur) ==
  LET response == graph_page(records, Limit, cur)
      got == AddFollows(acc, response.items)
  IN IF LastPage(response) THEN got
     ELSE follow_loop(records, got, response.cursor)

get_follow_dids(records) == follow_loop(records, {}, None)

RECURSIVE block_loop(_, _, _)
block_loop(records, acc, cur) ==
  LET response == graph_page(records, Limit, cur)
      got == AddBlocks(acc, response.items)
  IN IF LastPage(response) THEN got
     ELSE block_loop(records, got, response.cursor)

get_block_dids(records) == block_loop(records, {}, None)

\* ------------------------------------------------------------ Relationship Editor
\* The first record of a page whose subject is did, or 0.
FirstMatch(page, did) ==
  LET hits == {k \in 1..Len(page) : page[k].subject = did}
  IN IF hits = {} THEN 0 ELSE CHOOSE k \in hits : \A j \in hits : k <= j

RECURSIVE unfollow_loop(_, _, _)
unfollow_loop(records, did, cursor) ==
  LET page == list_records(records, Limit, cursor)
      k == FirstMatch(page.records, did)
  IN IF k # 0 THEN delete_record(records, RkeyOf(page.records[k]))
     ELSE IF page.cursor = None THEN records
     ELSE unfollow_loop(records, did, page.cursor)

\* unfollow_account(client, did): the follow records of client.me afterwards.
unfollow_account(records, did) == unfollow_loop(records, did, None)

RECURSIVE unblock_loop(_, _, _)
unblock_loop(records, did, cursor) ==
  LET page == list_records(records, Limit, cursor)
      k == FirstMatch(page.records, did)
  IN IF k # 0 THEN delete_record(records, RkeyOf(page.records[k]))
     ELSE IF page.cursor = None THEN records
     ELSE unblock_loop(records, did, page.cursor)

\* unblock_account(client, did): the block records of client.me afterwards.
unblock_account(records, did) == unblock_loop(records, did, None)

\* ------------------------------------------------------------ configuration
ENV_VARS ==
  {"ACCOUNT_A_HANDLE", "ACCOUNT_A_APP_PASSWORD", "ACCOUNT_B_HANDLE", "ACCOUNT_B_APP_PASSWORD"}

\* require_env(name) returns when the variable is set and not empty; main
\* calls it for every name of ENV_VARS and exits at the first RuntimeError.
require_env(environ, name) == name \in environ

\* ------------------------------------------------------------ Reconciler: the sets of main
\* conflicting_follows = follows_a & follows_b
ConflictingFollows(fa, fb) == fa \cap fb

\* conflicting_blocks = blocks_a & blocks_b
ConflictingBlocks(ba, bb) == ba \cap bb

\* A variant without the self-exclusion.
ToBlockOnB_WithSelf(fa, bb, db) == sorted(fa \ bb)

\* to_block_on_b = sorted((follows_a - blocks_b) - {did_b})
ToBlockOnB(fa, bb, db) == sorted((fa \ bb) \ {db})

\* to_block_on_a = sorted((follows_b - blocks_a) - {did_a})
ToBlockOnA(fb, ba, da) == sorted((fb \ ba) \ {da})

\* The final report of main.
Summary(cf, cb, tb, ta) ==
  IF cf = {} /\ cb = {} /\ tb = <<>> /\ ta = <<>> THEN "nothing to do" ELSE "sync complete"

\* ------------------------------------------------------------ state
VARIABLES
  pds,                  \* the server: pds[did][collection], a sequence of records
  pc,                   \* where main is
  exit_code,            \* -1 while main runs, then the exit code of the process
  fails,                \* remote calls and configuration checks that failed so far
  did_a, did_b,         \* profile_a.did, profile_b.did (None before login)
  follows_a, follows_b, blocks_a, blocks_b,
  conflicting_follows, conflicting_blocks,
  to_block_on_b, to_block_on_a,
  i,                    \* the position of the for loop of the current phase
  calls,                \* the write calls of this run, in order
  report,               \* the final message of this run
  prev_clean,           \* the previous run completed and every write of it succeeded
  pages, fn, dids, cursor, requests, fpc   \* one paged fetch (PageSpec)

mainVars ==
  <<pds, pc, exit_code, fails, did_a, did_b, follows_a, follows_b, blocks_a, blocks_b,
    conflicting_follows, conflicting_blocks, to_block_on_b, to_block_on_a, i, calls,
    report, prev_clean>>
pageVars == <<pages, fn, dids, cursor, requests, fpc>>
vars == <<mainVars, pageVars>>

\* ------------------------------------------------------------ initial server states
\* A slot is one (account, collection, subject), the subject another account
\* than the owner (an account neither follows nor blocks itself); an initial
\* server state is a multiset of slots, written as a non-decreasing sequence
\* of slot numbers.
NumSlots == 4 * (NumDids - 1)
SlotAcct(s) == IF (s - 1) \div (2 * (NumDids - 1)) = 0 THEN ProfileA ELSE ProfileB
SlotColl(s) == IF ((s - 1) \div (NumDids - 1)) % 2 = 0 THEN FOLLOW ELSE BLOCK
SlotDid(s) ==
  LET j == ((s - 1) % (NumDids - 1)) + 1
  IN IF j < SlotAcct(s) THEN j ELSE j + 1

RECURSIVE SlotSeqs(_, _)
SlotSeqs(k, lo) ==
  IF k = 0 THEN {<<>>}
  ELSE UNION {{<<s>> \o t : t \in SlotSeqs(k - 1, s)} : s \in lo..NumSlots}

Copies(seq, s) == Cardinality({k \in 1..Len(seq) : seq[k] = s})

\* The multisets of at most MaxRecords slots with at most dup copies of each.
InitialSlots(dup) ==
  {seq \in UNION {SlotSeqs(k, 1) : k \in 0..MaxRecords} :
     \A k \in 1..Len(seq) : Copies(seq, seq[k]) <= dup}

RepoOf(seq, acct, coll) ==
  LET mine == SelectSeq(seq, LAMBDA s : SlotAcct(s) = acct /\ SlotColl(s) = coll)
  IN [k \in 1..Len(mine) |-> Record(acct, coll, k, SlotDid(mine[k]))]

ServerOf(seq) == [a \in Accounts |-> [c \in Collections |-> RepoOf(seq, a, c)]]

\* What a fresh fetch observes.
Subjects(records) == {records[k].subject : k \in 1..Len(records)}
Follows(acct) == Subjects(pds[acct][FOLLOW])
Blocks(acct) == Subjects(pds[acct][BLOCK])

\* ------------------------------------------------------------ main
\* The state of a process that has just started.
Fresh ==
  /\ pc = "env" /\ exit_code = -1
  /\ did_a = None /\ did_b = None
  /\ follows_a = {} /\ follows_b = {} /\ blocks_a = {} /\ blocks_b = {}
  /\ conflicting_follows = {} /\ conflicting_blocks = {}
  /\ to_block_on_b = <<>> /\ to_block_on_a = <<>>
  /\ i = 1 /\ calls = <<>> /\ report = "none"

NoPage ==
  /\ pages = <<>> /\ fn = "none" /\ dids = {} /\ cursor = None /\ requests = 0
  /\ fpc = "idle"

Init ==
  /\ pds \in {ServerOf(seq) : seq \in InitialSlots(MaxDup)}
  /\ fails = 0 /\ prev_clean = FALSE
  /\ Fresh
  /\ NoPage

\* One write call of main and its outcome.
Call(op, on, did, ok) == [op |-> op, on |-> on, did |-> did, ok |-> ok]

\* sys.exit(1)
Exit1 == pc' = "exit" /\ exit_code' = 1 /\ fails' = fails + 1

MayFail == fails < MaxFails

\* Lines 219-229: every name of ENV_VARS is required.
CheckEnv ==
  /\ pc = "env"
  /\ \E environ \in SUBSET ENV_VARS :
       IF \A name \in ENV_VARS : require_env(environ, name)
       THEN pc' = "login" /\ UNCHANGED <<exit_code, fails>>
       ELSE MayFail /\ Exit1
  /\ UNCHANGED <<pds, did_a, did_b, follows_a, follows_b, blocks_a, blocks_b,
                 conflicting_follows, conflicting_blocks, to_block_on_b, to_block_on_a,
                 i, calls, report, prev_clean, pageVars>>

\* Lines 231-246: both logins; an AtProtocolError of either ends the run.
Login ==
  /\ pc = "login"
  /\ \E outcome \in {"ok", "a fails", "b fails"} :
       IF outcome = "ok"
       THEN /\ did_a' = ProfileA /\ did_b' = ProfileB
            /\ pc' = "fetch_follows_a"
            /\ UNCHANGED <<exit_code, fails>>
       ELSE MayFail /\ Exit1 /\ UNCHANGED <<did_a, did_b>>
  /\ UNCHANGED <<pds, follows_a, follows_b, blocks_a, blocks_b,
                 conflicting_follows, conflicting_blocks, to_block_on_b, to_block_on_a,
                 i, calls, report, prev_clean, pageVars>>

\* Lines 248-254.
FetchFollowsA ==
  /\ pc = "fetch_follows_a"
  /\ \E ok \in BOOLEAN :
       IF ok
       THEN /\ follows_a' = get_follow_dids(pds[did_a][FOLLOW])
            /\ pc' = "fetch_follows_b"
            /\ UNCHANGED <<exit_code, fails>>
       ELSE MayFail /\ Exit1 /\ UNCHANGED follows_a
  /\ UNCHANGED <<pds, did_a, did_b, follows_b, blocks_a, blocks_b,
                 conflicting_follows, conflicting_blocks, to_block_on_b, to_block_on_a,
                 i, calls, report, prev_clean, pageVars>>

\* Lines 256-262.
FetchFollowsB ==
  /\ pc = "fetch_follows_b"
  /\ \E ok \in BOOLEAN :
       IF ok
       THEN /\ follows_b' = get_follow_dids(pds[did_b][FOLLOW])
            /\ pc' = "fetch_blocks_a"
            /\ UNCHANGED <<exit_code, fails>>
       ELSE MayFail /\ Exit1 /\ UNCHANGED follows_b
  /\ UNCHANGED <<pds, did_a, did_b, follows_a, blocks_a, blocks_b,
                 conflicting_follows, conflicting_blocks, to_block_on_b, to_block_on_a,
                 i, calls, report, prev_clean, pageVars>>

\* Lines 264-270.
FetchBlocksA ==
  /\ pc = "fetch_blocks_a"
  /\ \E ok \in BOOLEAN :
       IF ok
       THEN /\ blocks_a' = get_block_dids(pds[did_a][BLOCK])
            /\ pc' = "fetch_blocks_b"
            /\ UNCHANGED <<exit_code, fails>>
       ELSE MayFail /\ Exit1 /\ UNCHANGED blocks_a
  /\ UNCHANGED <<pds, did_a, did_b, follows_a, follows_b, blocks_b,
                 conflicting_follows, conflicting_blocks, to_block_on_b, to_block_on_a,
                 i, calls, report, prev_clean, pageVars>>

\* A variant that takes a failed fetch for an empty set and goes on.
FetchBlocksB_Swallow ==
  /\ pc = "fetch_blocks_b"
  /\ \E ok \in BOOLEAN :
       /\ ok \/ MayFail
       /\ blocks_b' = IF ok THEN get_block_dids(pds[did_b][BLOCK]) ELSE {}
       /\ fails' = IF ok THEN fails ELSE fails + 1
  /\ conflicting_follows' = ConflictingFollows(follows_a, follows_b)
  /\ pc' = "phase1" /\ i' = 1
  /\ UNCHANGED <<pds, exit_code, did_a, did_b, follows_a, follows_b, blocks_a,
                 conflicting_blocks, to_block_on_b, to_block_on_a,
                 calls, report, prev_clean, pageVars>>

\* Lines 272-280: the last fetch, then the follow conflicts are computed.
FetchBlocksB ==
  /\ pc = "fetch_blocks_b"
  /\ \E ok \in BOOLEAN :
       IF ok
       THEN /\ blocks_b' = get_block_dids(pds[did_b][BLOCK])
            /\ conflicting_follows' = ConflictingFollows(follows_a, follows_b)
            /\ pc' = "phase1" /\ i' = 1
            /\ UNCHANGED <<exit_code, fails>>
       ELSE MayFail /\ Exit1 /\ UNCHANGED <<blocks_b, conflicting_follows, i>>
  /\ UNCHANGED <<pds, did_a, did_b, follows_a, follows_b, blocks_a,
                 conflicting_blocks, to_block_on_b, to_block_on_a,
                 calls, report, prev_clean, pageVars>>

\* A variant whose try statement encloses the loop: the first failure ends it.
Unfollow_Abort ==
  /\ pc = "phase1" /\ i <= Len(sorted(conflicting_follows))
  /\ LET did == sorted(conflicting_follows)[i] IN
     \E ok \in BOOLEAN :
       /\ ok \/ MayFail
       /\ pds' = IF ok THEN [pds EXCEPT ![did_b][FOLLOW] = unfollow_account(@, did)] ELSE pds
       /\ fails' = IF ok THEN fails ELSE fails + 1
       /\ calls' = Append(calls, Call("unfollow", did_b, did, ok))
       /\ i' = IF ok THEN i + 1 ELSE Len(sorted(conflicting_follows)) + 1
  /\ UNCHANGED <<pc, exit_code, did_a, did_b, follows_a, follows_b, blocks_a, blocks_b,
                 conflicting_follows, conflicting_blocks, to_block_on_b, to_block_on_a,
                 report, prev_clean, pageVars>>

\* Lines 286-295: one iteration of the loop of phase 1; an AtProtocolError of
\* unfollow_account is logged and the loop goes on.
Unfollow ==
  /\ pc = "phase1" /\ i <= Len(sorted(conflicting_follows))
  /\ LET did == sorted(conflicting_follows)[i] IN
     \E ok \in BOOLEAN :
       /\ ok \/ MayFail
       /\ pds' = IF ok THEN [pds EXCEPT ![did_b][FOLLOW] = unfollow_account(@, did)] ELSE pds
       /\ fails' = IF ok THEN fails ELSE fails + 1
       /\ calls' = Append(calls, Call("unfollow", did_b, did, ok))
  /\ i' = i + 1
  /\ UNCHANGED <<pc, exit_code, did_a, did_b, follows_a, follows_b, blocks_a, blocks_b,
                 conflicting_follows, conflicting_blocks, to_block_on_b, to_block_on_a,
                 report, prev_clean, pageVars>>

\* A variant that leaves follows_b as it was fetched.
EndPhase1_KeepFollowsB ==
  /\ pc = "phase1" /\ i > Len(sorted(conflicting_follows))
  /\ conflicting_blocks' = ConflictingBlocks(blocks_a, blocks_b)
  /\ pc' = "phase2" /\ i' = 1
  /\ UNCHANGED <<pds, exit_code, fails, did_a, did_b, follows_a, follows_b, blocks_a,
                 blocks_b, conflicting_follows, to_block_on_b, to_block_on_a,
                 calls, report, prev_clean, pageVars>>

\* Lines 296-298: follows_b -= conflicting_follows, then the block conflicts.
EndPhase1 ==
  /\ pc = "phase1" /\ i > Len(sorted(conflicting_follows))
  /\ follows_b' = follows_b \ conflicting_follows
  /\ conflicting_blocks' = ConflictingBlocks(blocks_a, blocks_b)
  /\ pc' = "phase2" /\ i' = 1
  /\ UNCHANGED <<pds, exit_code, fails, did_a, did_b, follows_a, blocks_a, blocks_b,
                 conflicting_follows, to_block_on_b, to_block_on_a,
                 calls, report, prev_clean, pageVars>>

\* Lines 304-313: one iteration of the loop of phase 2.
Unblock ==
  /\ pc = "phase2" /\ i <= Len(sorted(conflicting_blocks))
  /\ LET did == sorted(conflicting_blocks)[i] IN
     \E ok \in BOOLEAN :
       /\ ok \/ MayFail
       /\ pds' = IF ok THEN [pds EXCEPT ![did_a][BLOCK] = unblock_account(@, did)] ELSE pds
       /\ fails' = IF ok THEN fails ELSE fails + 1
       /\ calls' = Append(calls, Call("unblock", did_a, did, ok))
  /\ i' = i + 1
  /\ UNCHANGED <<pc, exit_code, did_a, did_b, follows_a, follows_b, blocks_a, blocks_b,
                 conflicting_follows, conflicting_blocks, to_block_on_b, to_block_on_a,
                 report, prev_clean, pageVars>>

\* Lines 314-316: blocks_a -= conflicting_blocks, then to_block_on_b.
EndPhase2 ==
  /\ pc = "phase2" /\ i > Len(sorted(conflicting_blocks))
  /\ blocks_a' = blocks_a \ conflicting_blocks
  /\ to_block_on_b' = ToBlockOnB(follows_a, blocks_b, did_b)
  /\ pc' = "phase3" /\ i' = 1
  /\ UNCHANGED <<pds, exit_code, fails, did_a, did_b, follows_a, follows_b, blocks_b,
                 conflicting_follows, conflicting_blocks, to_block_on_a,
                 calls, report, prev_clean, pageVars>>

\* Lines 319-330: one iteration of the loop of phase 3.
BlockOnB ==
  /\ pc = "phase3" /\ i <= Len(to_block_on_b)
  /\ LET did == to_block_on_b[i] IN
     \E ok \in BOOLEAN :
       /\ ok \/ MayFail
       /\ pds' = IF ok THEN [pds EXCEPT ![did_b][BLOCK] = block_create(@, did_b, did)] ELSE pds
       /\ fails' = IF ok THEN fails ELSE fails + 1
       /\ calls' = Append(calls, Call("block", did_b, did, ok))
  /\ i' = i + 1
  /\ UNCHANGED <<pc, exit_code, did_a, did_b, follows_a, follows_b, blocks_a, blocks_b,
                 conflicting_follows, conflicting_blocks, to_block_on_b, to_block_on_a,
                 report, prev_clean, pageVars>>

\* Line 332: to_block_on_a.
EndPhase3 ==
  /\ pc = "phase3" /\ i > Len(to_block_on_b)
  /\ to_block_on_a' = ToBlockOnA(follows_b, blocks_a, did_a)
  /\ pc' = "phase4" /\ i' = 1
  /\ UNCHANGED <<pds, exit_code, fails, did_a, did_b, follows_a, follows_b, blocks_a,
                 blocks_b, conflicting_follows, conflicting_blocks, to_block_on_b,
                 calls, report, prev_clean, pageVars>>

\* Lines 335-346: one iteration of the loop of phase 4.
BlockOnA ==
  /\ pc = "phase4" /\ i <= Len(to_block_on_a)
  /\ LET did == to_block_on_a[i] IN
     \E ok \in BOOLEAN :
       /\ ok \/ MayFail
       /\ pds' = IF ok THEN [pds EXCEPT ![did_a][BLOCK] = block_create(@, did_a, did)] ELSE pds
       /\ fails' = IF ok THEN fails ELSE fails + 1
       /\ calls' = Append(calls, Call("block", did_a, did, ok))
  /\ i' = i + 1
  /\ UNCHANGED <<pc, exit_code, did_a, did_b, follows_a, follows_b, blocks_a, blocks_b,
                 conflicting_follows, conflicting_blocks, to_block_on_b, to_block_on_a,
                 report, prev_clean, pageVars>>

\* Lines 348-359: the final report; main returns and the process exits with 0.
Finish ==
  /\ pc = "phase4" /\ i > Len(to_block_on_a)
  /\ report' = Summary(conflicting_follows, conflicting_blocks, to_block_on_b, to_block_on_a)
  /\ pc' = "done" /\ exit_code' = 0
  /\ UNCHANGED <<pds, fails, did_a, did_b, follows_a, follows_b, blocks_a, blocks_b,
                 conflicting_follows, conflicting_blocks, to_block_on_b, to_block_on_a,
                 i, calls, prev_clean, pageVars>>

Run ==
  \/ CheckEnv \/ Login
  \/ FetchFollowsA \/ FetchFollowsB \/ FetchBlocksA \/ FetchBlocksB
  \/ Unfollow \/ EndPhase1 \/ Unblock \/ EndPhase2
  \/ BlockOnB \/ EndPhase3 \/ BlockOnA \/ Finish

Next == Run

\* One run of main from every initial server state.
Spec == Init /\ [][Next]_vars

\* The next process: main starts again on the server as the last run left it.
Repeat ==
  /\ pc \in {"done", "exit"}
  /\ prev_clean' = (pc = "done" /\ \A k \in 1..Len(calls) : calls[k].ok)
  /\ pc' = "env" /\ exit_code' = -1
  /\ did_a' = None /\ did_b' = None
  /\ follows_a' = {} /\ follows_b' = {} /\ blocks_a' = {} /\ blocks_b' = {}
  /\ conflicting_follows' = {} /\ conflicting_blocks' = {}
  /\ to_block_on_b' = <<>> /\ to_block_on_a' = <<>>
  /\ i' = 1 /\ calls' = <<>> /\ report' = "none"
  /\ UNCHANGED <<pds, fails, pageVars>>

NextLive == Run \/ Repeat

\* The initial server states that hold one record at most for a subject.
InitLive ==
  /\ pds \in {ServerOf(seq) : seq \in InitialSlots(1)}
  /\ fails = 0 /\ prev_clean = FALSE
  /\ Fresh
  /\ NoPage

\* main run again and again with no other change of the server; at most
\* MaxFails calls fail, so the writes eventually succeed, and the runs go on.
LiveSpec == InitLive /\ [][NextLive]_vars /\ WF_vars(NextLive)

\* ------------------------------------------------------------ one paged fetch
\* The entries of a page: a did, or None for an entry without one.
PageItems == UNION {[1..n -> {None} \cup Accounts] : n \in 0..MaxEntries}
PageLists == UNION {[1..n -> PageItems] : n \in 1..MaxPages}

\* The response to a request: the page after the cursor, with the cursor of
\* the page after it, and no cursor with the last page.
ServePage(list, cur) ==
  [items |-> list[cur + 1],
   cursor |-> IF cur + 1 < Len(list) THEN cur + 1 ELSE None]

InitPage ==
  /\ pds = ServerOf(<<>>)
  /\ fails = 0 /\ prev_clean = FALSE
  /\ Fresh
  /\ pages \in PageLists
  /\ fn \in {"get_follow_dids", "get_block_dids"}
  /\ dids = {} /\ cursor = None /\ requests = 0 /\ fpc = "loop"

\* One iteration of the while loop of get_follow_dids.
GetFollowsRequest ==
  /\ fn = "get_follow_dids" /\ fpc = "loop"
  /\ LET response == ServePage(pages, cursor) IN
       /\ dids' = AddFollows(dids, response.items)
       /\ cursor' = response.cursor
       /\ fpc' = IF LastPage(response) THEN "returned" ELSE "loop"
  /\ requests' = requests + 1
  /\ UNCHANGED <<mainVars, pages, fn>>

\* One iteration of the while loop of get_block_dids.
GetBlocksRequest ==
  /\ fn = "get_block_dids" /\ fpc = "loop"
  /\ LET response == ServePage(pages, cursor) IN
       /\ dids' = AddBlocks(dids, response.items)
       /\ cursor' = response.cursor
       /\ fpc' = IF LastPage(response) THEN "returned" ELSE "loop"
  /\ requests' = requests + 1
  /\ UNCHANGED <<mainVars, pages, fn>>

NextPage == GetFollowsRequest \/ GetBlocksRequest

PageSpec == InitPage /\ [][NextPage]_vars

\* ------------------------------------------------------------ properties
Done == pc = "done"
AllOk == \A k \in 1..Len(calls) : calls[k].ok
\* The write calls of the run, without their outcomes.
Attempt(op, on, did) == <<op, on, did>>
Attempts == [k \in 1..Len(calls) |-> Attempt(calls[k].op, calls[k].on, calls[k].did)]
\* The sets as the four fetches returned them (main later reduces two of them).
FetchedFollowsB == follows_b \cup conflicting_follows
FetchedBlocksA == blocks_a \cup conflicting_blocks

\* C1: after a run in which login, the fetches and every write succeeded, no
\* identifier is blocked by both A and B.
C1_BlocksDisjoint ==
  (Done /\ AllOk) => Blocks(ProfileA) \cap Blocks(ProfileB) = {}

\* C2: after such a run no identifier is followed by both A and B, A follows
\* what it followed before, and B follows none of the follow conflicts.
C2_FollowsDisjoint ==
  (Done /\ AllOk) =>
    /\ Follows(ProfileA) \cap Follows(ProfileB) = {}
    /\ Follows(ProfileA) = follows_a
    /\ Follows(ProfileB) \cap conflicting_follows = {}

\* C3: after such a run B blocks everything A follows except did_B, and A
\* blocks everything B still follows except did_A.
C3_FollowsAreBlocked ==
  (Done /\ AllOk) =>
    /\ Follows(ProfileA) \ Blocks(ProfileB) \subseteq {did_b}
    /\ Follows(ProfileB) \ Blocks(ProfileA) \subseteq {did_a}

\* C4: a run that follows a completed run whose writes all succeeded, with no
\* other change of the server in between, issues no write.
C4_SecondRunIsIdle ==
  (Done /\ prev_clean) => calls = <<>>

\* C5: repeated with no other change of the server and with writes that
\* eventually succeed, main eventually completes a run that issues no write
\* and reports that there is nothing to do.
C5_Converges ==
  <>(Done /\ calls = <<>> /\ report = "nothing to do")

\* The fetched sets of the worked example: did:x = 3, did:y = 4, did:z = 5.
Example ==
  /\ follows_a = {3, 4} /\ FetchedFollowsB = {4, 5}
  /\ FetchedBlocksA = {} /\ blocks_b = {}

\* C6 as stated: no block creation has a follow conflict or a block conflict
\* as its subject, and the run of the example issues exactly: unfollow did:y
\* on B, block did:x on B, block did:z on A.
C6_ConflictsNotReprocessed ==
  /\ \A k \in 1..Len(calls) :
       calls[k].op = "block" =>
         calls[k].did \notin (conflicting_follows \cup conflicting_blocks)
  /\ (Done /\ Example) =>
       Attempts = <<Attempt("unfollow", ProfileB, 4), Attempt("block", ProfileB, 3),
                    Attempt("block", ProfileA, 5)>>

\* C6 amended: no block creation on A (phase 4) has a follow conflict as its
\* subject and no block creation on B (phase 3) has a block conflict as its
\* subject; a follow conflict that B does not block is still blocked on B in
\* phase 3, and the run of the example issues exactly: unfollow did:y on B,
\* block did:x on B, block did:y on B, block did:z on A.
C6_Amended ==
  /\ \A k \in 1..Len(calls) :
       calls[k].op = "block" =>
         /\ calls[k].on = did_a => calls[k].did \notin conflicting_follows
         /\ calls[k].on = did_b => calls[k].did \notin conflicting_blocks
  /\ Done =>
       \A d \in (conflicting_follows \ blocks_b) \ {did_b} :
         \E k \in 1..Len(calls) : Attempts[k] = Attempt("block", did_b, d)
  /\ (Done /\ Example) =>
       Attempts = <<Attempt("unfollow", ProfileB, 4), Attempt("block", ProfileB, 3),
                    Attempt("block", ProfileB, 4), Attempt("block", ProfileA, 5)>>

\* The run of the example has completed.
C6_Witness == Done /\ Example /\ AllOk

\* C7: when the configuration is incomplete, or a login or one of the four
\* fetches fails, the run has ended with exit code 1 and has issued no write;
\* exit code 1 and writes never go together.
FailedCalls == Cardinality({k \in 1..Len(calls) : ~calls[k].ok})
C7_FatalBeforeWrites ==
  /\ fails > FailedCalls => (pc = "exit" /\ exit_code = 1 /\ calls = <<>>)
  /\ (pc = "exit" \/ exit_code = 1) => (pc = "exit" /\ exit_code = 1 /\ calls = <<>>)
  /\ calls # <<>> => pc \in {"phase1", "phase2", "phase3", "phase4", "done"}

\* The last of the four fetches failed for accounts that had work to do.
C7_Witness ==
  /\ pc = "exit" /\ did_a # None
  /\ follows_a \cap follows_b # {} /\ blocks_a # {}

\* The write calls main makes for the fetched sets, whatever their outcomes.
Plan(fa, fb, ba, bb, da, db) ==
  [k \in 1..Len(sorted(fa \cap fb)) |-> Attempt("unfollow", db, sorted(fa \cap fb)[k])]
  \o [k \in 1..Len(sorted(ba \cap bb)) |-> Attempt("unblock", da, sorted(ba \cap bb)[k])]
  \o [k \in 1..Len(sorted((fa \ bb) \ {db})) |->
        Attempt("block", db, sorted((fa \ bb) \ {db})[k])]
  \o [k \in 1..Len(sorted(((fb \ fa) \ (ba \ bb)) \ {da})) |->
        Attempt("block", da, sorted(((fb \ fa) \ (ba \ bb)) \ {da})[k])]

\* C8: a write that fails does not end the run and changes no other write:
\* the completed run has exit code 0 and has attempted, in order, exactly
\* the writes the fetched sets call for, whichever of them failed.
C8_FailuresNotFatal ==
  /\ Done =>
       /\ exit_code = 0
       /\ Attempts = Plan(follows_a, FetchedFollowsB, FetchedBlocksA, blocks_b, did_a, did_b)
  /\ calls # <<>> => pc # "exit"

\* A write failed, writes of the same and of a later phase followed it, and
\* the run completed.
C8_Witness ==
  /\ Done
  /\ \E k \in 1..Len(calls) :
       /\ ~calls[k].ok
       /\ k + 2 <= Len(calls)
       /\ calls[k + 1].op = calls[k].op
       /\ calls[k + 2].op # calls[k].op

\* C9: no block creation issued against an account has that account itself
\* as its subject.
C9_SelfExclusion ==
  \A k \in 1..Len(calls) :
    calls[k].op = "block" =>
      /\ calls[k].on = did_b => calls[k].did # did_b
      /\ calls[k].on = did_a => calls[k].did # did_a

\* A follows B, B follows A, neither is blocked by the other yet, and the run
\* has completed having created blocks on both accounts.
C9_Witness ==
  /\ Done
  /\ did_b \in follows_a /\ did_b \notin blocks_b
  /\ did_a \in follows_b /\ did_a \notin blocks_a
  /\ \E k \in 1..Len(calls) : calls[k].op = "block" /\ calls[k].on = did_b
  /\ \E k \in 1..Len(calls) : calls[k].op = "block" /\ calls[k].on = did_a

\* C10: a fetch (get_follow_dids or get_block_dids) of a list of N pages
\* makes N requests, stops after the page without a cursor and returns the
\* identifiers of all the pages, each once, without the entries that have none.
C10_Pagination ==
  /\ requests <= Len(pages)
  /\ fpc = "loop" => (requests < Len(pages) /\ cursor = requests)
  /\ fpc = "returned" =>
       /\ requests = Len(pages)
       /\ dids = UNION {{pages[p][k] : k \in 1..Len(pages[p])} : p \in 1..Len(pages)} \ {None}

\* A fetch has returned from a list of two pages that holds an entry
\* without identifier, one identifier on both pages and another on one.
C10_Witness ==
  /\ fpc = "returned" /\ Len(pages) = 2
  /\ \E k \in 1..Len(pages[1]) : pages[1][k] = None
  /\ \E k \in 1..Len(pages[1]) : \E j \in 1..Len(pages[2]) :
       pages[1][k] # None /\ pages[1][k] = pages[2][j]
  /\ Cardinality(dids) = 2

====
